---- MODULE Spec2Model ----
(***************************************************************************)
(* Food Rescue dashboard (src/.../app/main_sqlite.py): the SQLite store,   *)
(* the CSV loader import_csv_data, the bootstrap init_database and the     *)
(* CRUD forms with their audit log.                                        *)
(*                                                                         *)
(* Encoding.  A nullable cell (SQL NULL, pandas NaN/None) is the empty set *)
(* and a value v is the singleton {v}; primary keys are plain integers.    *)
(* A CSV file is the sequence of its data rows as pd.read_csv yields them. *)
(* A stored expiry_date is the triple <<y, m, d>> that the ISO text        *)
(* 'YYYY-MM-DD' written by strftime denotes.                               *)
(*                                                                         *)
(* Transactions.  sqlite3 opens a transaction implicitly before an INSERT,  *)
(* UPDATE or DELETE only, so the DDL of the loader is committed statement  *)
(* by statement and its INSERTs form one transaction.  import_csv_data     *)
(* returns False without closing its connection (line 152).  The rows of   *)
(* that transaction are never visible to another connection, and its write *)
(* lock lasts until the interpreter finalises the connection: at once      *)
(* where reference counting frees it, at some later garbage collection     *)
(* where the connection is part of a reference cycle (CPython >= 3.11, its *)
(* statement cache).  When that happens is a nondeterministic choice.      *)
(*                                                                         *)
(* The employee roster (src/assignment1.py) is a separate program; its     *)
(* state is the variable emp and its specification SpecRoster.             *)
(***************************************************************************)
EXTENDS Integers, Sequences, FiniteSets, TLC

\* ---------------------------------------------------------------- bounds
\* longest providers or receivers file (data rows) the loader is given
MaxRows == 3
\* longest food_listings or claims file (data rows) the loader is given
MaxBatch == 2
\* audit entries after which the forms are no longer exercised
MaxAudit == 2

\* ------------------------------------------------------------ primitives
Null == {}
V(x) == {x}
Val(c) == CHOOSE x \in c : TRUE

import_order == <<"providers", "receivers", "food_listings", "claims">>
CoreTables == {"providers", "receivers", "food_listings", "claims"}
AllTables == CoreTables \cup {"audit_log"}
\* tables in the order import_csv_data drops them
DropOrder == <<"claims", "food_listings", "receivers", "providers", "audit_log">>
\* tables in the order both import_csv_data and init_database create them
CreateOrder == <<"providers", "receivers", "food_listings", "claims", "audit_log">>

PK == [providers |-> "provider_id", receivers |-> "receiver_id",
       food_listings |-> "food_id", claims |-> "claim_id"]

StatusValues == {"Pending", "Completed", "Cancelled"}

EmptyTables == [t \in CoreTables |-> {}]

RECURSIVE SeqToSet(_)
SeqToSet(s) == IF s = <<>> THEN {} ELSE {Head(s)} \cup SeqToSet(Tail(s))

\* ------------------------------------------------- pandas cleaning steps
NaT == <<>>

\* the year, month and day fields of a text laid out as YYYY-MM-DD; <<>> when
\* the text does not have that layout
DateFields(text) ==
    CASE text = "2025-01-15" -> <<2025, 1, 15>>
      [] text = "2025-02-01" -> <<2025, 2, 1>>
      [] text = "2025-02-30" -> <<2025, 2, 30>>
      [] OTHER -> <<>>

IsLeap(y) == (y % 4 = 0 /\ y % 100 # 0) \/ y % 400 = 0

DaysInMonth(y, m) ==
    IF m = 2 THEN (IF IsLeap(y) THEN 29 ELSE 28)
    ELSE IF m \in {4, 6, 9, 11} THEN 30 ELSE 31

ValidDate(f) ==
    /\ f[2] \in 1..12
    /\ f[3] \in 1..DaysInMonth(f[1], f[2])

\* pd.to_datetime(cell, errors='coerce') on one cell: the date, or NaT
ToDatetime(cell) ==
    IF cell = Null THEN NaT
    ELSE LET f == DateFields(Val(cell))
         IN IF f # <<>> /\ ValidDate(f) THEN f ELSE NaT

\* pd.to_numeric(cell, errors='coerce') on one cell: the number, or NaN
ToNumeric(cell) ==
    IF cell = Null THEN Null
    ELSE CASE Val(cell) = "50" -> V(50)
           [] Val(cell) = "0"  -> V(0)
           [] Val(cell) = "-5" -> V(0 - 5)
           [] OTHER -> Null

\* a faulty variant of NullIfNegative: the comparison written as <= 0
NullIfNegative_OrZero(q) == IF q # Null /\ Val(q) <= 0 THEN Null ELSE q

\* df.loc[df['quantity'] < 0, 'quantity'] = None on one cell (NaN < 0 is False)
NullIfNegative(q) == IF q # Null /\ Val(q) < 0 THEN Null ELSE q

\* astype(str) on one cell: NaN becomes the text 'nan'
AsTypeStr(cell) == IF cell = Null THEN "nan" ELSE Val(cell)

\* str.strip() on one text
StrStrip(text) ==
    CASE text = " X" -> "X"
      [] text = "Y " -> "Y"
      [] OTHER -> text

HasColumn(row, col) == col \in DOMAIN row

\* lines 117-120 on one row: the expiry cell parsed (NaT when unparseable)
ParseExpiry(row) ==
    IF HasColumn(row, "expiry_date")
    THEN [row EXCEPT !["expiry_date"] =
              LET d == ToDatetime(row["expiry_date"]) IN IF d = NaT THEN Null ELSE V(d)]
    ELSE row

\* a faulty variant of DropNaExpiry: the dropna step left out
DropNaExpiry_KeepAll(df) == df

\* df.dropna(subset=['expiry_date'])
DropNaExpiry(df) ==
    SelectSeq(df, LAMBDA row : HasColumn(row, "expiry_date") => row["expiry_date"] # Null)

\* lines 123-125 on one row
CleanQuantity(row) ==
    IF HasColumn(row, "quantity")
    THEN [row EXCEPT !["quantity"] = NullIfNegative(ToNumeric(row["quantity"]))]
    ELSE row

\* lines 128-129 on one row
CleanContact(row) ==
    IF HasColumn(row, "contact")
    THEN [row EXCEPT !["contact"] = V(StrStrip(AsTypeStr(row["contact"])))]
    ELSE row

\* a faulty variant of DropDuplicates: keep='last'
DropDuplicates_KeepLast(df) ==
    LET keep(i) == \A j \in (i + 1)..Len(df) : df[j]["contact"] # df[i]["contact"]
        RECURSIVE build(_)
        build(i) == IF i > Len(df) THEN <<>>
                    ELSE (IF keep(i) THEN <<df[i]>> ELSE <<>>) \o build(i + 1)
    IN build(1)

\* df.drop_duplicates(subset=['contact'], keep='first')
DropDuplicates(df) ==
    LET keep(i) == \A j \in 1..(i - 1) : df[j]["contact"] # df[i]["contact"]
        RECURSIVE build(_)
        build(i) == IF i > Len(df) THEN <<>>
                    ELSE (IF keep(i) THEN <<df[i]>> ELSE <<>>) \o build(i + 1)
    IN build(1)

\* lines 131-133: de-duplication, for providers and receivers only
Deduplicate(table, df) ==
    IF table \in {"providers", "receivers"} /\ Len(df) > 0 /\ HasColumn(df[1], "contact")
    THEN DropDuplicates(df)
    ELSE df

\* lines 117-120, 123-125 and 128-129 on every row of the frame
ParseExpiryColumn(df) == [i \in 1..Len(df) |-> ParseExpiry(df[i])]
CleanQuantityColumn(df) == [i \in 1..Len(df) |-> CleanQuantity(df[i])]
CleanContactColumn(df) == [i \in 1..Len(df) |-> CleanContact(df[i])]

\* lines 113-133: the cleaned batch of one table
CleanBatch(table, rows) ==
    Deduplicate(table,
        CleanContactColumn(
            CleanQuantityColumn(
                DropNaExpiry(ParseExpiryColumn(rows)))))

\* --------------------------------------------------- the store's schema
\* a faulty variant of ConstraintsOk: the tables declared without PRIMARY KEY
ConstraintsOk_NoPrimaryKey(table, row, stored) ==
    /\ table = "providers" => row["name"] # Null
    /\ table = "claims" => (row["status"] = Null \/ Val(row["status"]) \in StatusValues)

\* the constraints of the CREATE TABLE statements (lines 45-91, 181-227):
\* PRIMARY KEY, providers.name NOT NULL, claims.status CHECK (a CHECK whose
\* expression is NULL passes)
ConstraintsOk(table, row, stored) ==
    /\ \A r \in stored : r[PK[table]] # row[PK[table]]
    /\ table = "providers" => row["name"] # Null
    /\ table = "claims" => (row["status"] = Null \/ Val(row["status"]) \in StatusValues)


\* one INSERT of the loader's loop (line 144): the table with the row added, or
\* the failure sqlite3 raises
RECURSIVE InsertRows(_, _, _, _)
InsertRows(table, df, i, stored) ==
    IF i > Len(df) THEN [ok |-> TRUE, rows |-> stored, done |-> Len(df)]
    ELSE IF ConstraintsOk(table, df[i], stored)
         THEN InsertRows(table, df, i + 1, stored \cup {df[i]})
         ELSE [ok |-> FALSE, rows |-> stored, done |-> i - 1]

Ev(kind, table, n) == [ev |-> kind, table |-> table, n |-> n]

\* lines 137-148 for one table: the events of the inserts made, and the
\* uncommitted tables afterwards
Inserted(table, file, pending, df, ins) ==
    [ok |-> ins.ok,
     pending |-> [pending EXCEPT ![table] = ins.rows],
     events |-> <<Ev("read", table, Len(file.rows)), Ev("cleaned", table, Len(df))>>
                \o [k \in 1..ins.done |-> Ev("insert", table, df[k][PK[table]])]
                \o (IF ins.ok THEN <<>> ELSE <<Ev("insert_error", table, 0)>>)]

\* lines 137-148 for one table, on its cleaned batch df
InsertBatch(table, file, pending, df) ==
    Inserted(table, file, pending, df, InsertRows(table, df, 1, pending[table]))

\* a faulty variant of ImportTable: a missing file aborts the load
ImportTable_MissingAborts(table, file, pending) ==
    IF ~file.present \/ ~file.readable
    THEN [ok |-> FALSE, pending |-> pending, events |-> <<Ev("read_error", table, 0)>>]
    ELSE InsertBatch(table, file, pending, CleanBatch(table, file.rows))

\* lines 106-154 for one table: the uncommitted tables afterwards, whether the
\* table's try block raised, and the events in execution order
ImportTable(table, file, pending) ==
    IF ~file.present
    THEN [ok |-> TRUE, pending |-> pending, events |-> <<Ev("skip", table, 0)>>]
    ELSE IF ~file.readable
    THEN [ok |-> FALSE, pending |-> pending, events |-> <<Ev("read_error", table, 0)>>]
    ELSE InsertBatch(table, file, pending, CleanBatch(table, file.rows))

\* the events of one table followed by those of the tables after it
Then(one, rest) ==
    [ok |-> rest.ok, pending |-> rest.pending, events |-> one.events \o rest.events]

\* the for loop of lines 106-154 from the i-th table on; it returns at the first
\* table whose try block raises (line 152)
RECURSIVE ImportLoop(_, _, _)
\* a faulty variant of ImportNext: the loop goes on to the next table after a
\* table's try block raised, and reports the failure at the end
ImportNext_Continue(files, i, one) ==
    IF ~one.ok
    THEN [ok |-> FALSE,
          pending |-> ImportLoop(files, i + 1, one.pending).pending,
          events |-> one.events \o ImportLoop(files, i + 1, one.pending).events]
    ELSE Then(one, ImportLoop(files, i + 1, one.pending))

ImportNext(files, i, one) ==
    IF ~one.ok THEN one ELSE Then(one, ImportLoop(files, i + 1, one.pending))

ImportLoop(files, i, pending) ==
    IF i > Len(import_order) THEN [ok |-> TRUE, pending |-> pending, events |-> <<>>]
    ELSE ImportNext(files, i, ImportTable(import_order[i], files[import_order[i]], pending))

\* a faulty variant of HasCsvFiles: the check of lines 26-29 left out
HasCsvFiles_Any(dir) == TRUE

\* DATA_DIR.glob('*.csv') is non-empty
HasCsvFiles(dir) == dir.other_csv \/ \E t \in CoreTables : dir.files[t].present

DdlEvents ==
    [k \in 1..Len(DropOrder) |-> Ev("drop", DropOrder[k], 0)]
    \o [k \in 1..Len(CreateOrder) |-> Ev("create", CreateOrder[k], 0)]

\* the store once the tables are dropped and created again (lines 37-101)
Recreated ==
    [dbExists |-> TRUE, schema |-> AllTables, tables |-> EmptyTables, audit |-> <<>>,
     locked |-> FALSE, leaked |-> FALSE]

\* an INSERT was executed, so the connection has a transaction open
InTransaction(events) ==
    \E k \in 1..Len(events) : events[k].ev \in {"insert", "insert_error"}

\* a faulty variant of LoadResult: the rows inserted before the failure stay
\* in the store, as if every INSERT were committed on its own
LoadResult_KeepsPartial(loop) ==
    IF loop.ok
    THEN [ret |-> "True",
          store |-> [Recreated EXCEPT !.tables = loop.pending],
          events |-> DdlEvents \o loop.events \o <<Ev("commit", "", 0)>>]
    ELSE [ret |-> "False",
          store |-> [Recreated EXCEPT !.tables = loop.pending, !.leaked = TRUE],
          events |-> DdlEvents \o loop.events]

\* lines 150-159: commit, close and True; or False (line 152) with the
\* connection left open, its inserted rows uncommitted and its write lock held
LoadResult(loop) ==
    IF loop.ok
    THEN [ret |-> "True",
          store |-> [Recreated EXCEPT !.tables = loop.pending],
          events |-> DdlEvents \o loop.events \o <<Ev("commit", "", 0)>>]
    ELSE [ret |-> "False",
          store |-> [Recreated EXCEPT !.locked = InTransaction(loop.events),
                                      !.leaked = TRUE],
          events |-> DdlEvents \o loop.events]

\* a faulty variant of import_csv_data: only the tables whose file is present
\* are dropped, the others keep their rows
import_csv_data_KeepsUnloaded(dir, s) ==
    IF ~dir.exists \/ ~HasCsvFiles(dir)
    THEN [ret |-> "False", store |-> s, events |-> <<>>]
    ELSE IF s.locked
    THEN [ret |-> "raised", store |-> s, events |-> <<Ev("drop_error", "claims", 0)>>]
    ELSE LoadResult(ImportLoop(dir.files, 1,
                               [t \in CoreTables |->
                                   IF dir.files[t].present THEN {} ELSE s.tables[t]]))

\* a faulty variant of import_csv_data: the tables are not dropped, the rows
\* are inserted into what the store holds
import_csv_data_Append(dir, s) ==
    IF ~dir.exists \/ ~HasCsvFiles(dir)
    THEN [ret |-> "False", store |-> s, events |-> <<>>]
    ELSE IF s.locked
    THEN [ret |-> "raised", store |-> s, events |-> <<Ev("drop_error", "claims", 0)>>]
    ELSE LoadResult(ImportLoop(dir.files, 1, s.tables))

\* import_csv_data (lines 18-159) on the input directory dir and the store s;
\* the first DROP TABLE (line 38) raises when another connection holds the
\* write lock.  leaked: a connection that the loader or the bootstrap opened
\* was not closed and is not finalised yet
import_csv_data(dir, s) ==
    IF ~dir.exists \/ ~HasCsvFiles(dir)
    THEN [ret |-> "False", store |-> s, events |-> <<>>]
    ELSE IF s.locked
    THEN [ret |-> "raised", store |-> s, events |-> <<Ev("drop_error", "claims", 0)>>]
    ELSE LoadResult(ImportLoop(dir.files, 1, EmptyTables))

\* the interpreter finalises a connection that was left open: its transaction
\* is rolled back and its lock released
Finalised(s) == [s EXCEPT !.locked = FALSE, !.leaked = FALSE]

\* ------------------------------------------------------ the sample data
Provider(id, name, type, address, city, contact) ==
    [provider_id |-> id, name |-> name, type |-> type, address |-> address,
     city |-> city, contact |-> contact]

Receiver(id, name, type, city, contact) ==
    [receiver_id |-> id, name |-> name, type |-> type, city |-> city, contact |-> contact]

Listing(id, name, qty, expiry, provider, ptype, location, ftype, mtype) ==
    [food_id |-> id, food_name |-> name, quantity |-> qty, expiry_date |-> expiry,
     provider_id |-> provider, provider_type |-> ptype, location |-> location,
     food_type |-> ftype, meal_type |-> mtype]

Claim(id, food, receiver, status, ts) ==
    [claim_id |-> id, food_id |-> food, receiver_id |-> receiver, status |-> status,
     timestamp |-> ts]

\* lines 240-247
SampleProviders ==
    { Provider(1, V("Restaurant A"), V("Restaurant"), Null, V("New York"), V("+1-555-0101")),
      Provider(2, V("Cafe B"), V("Cafe"), Null, V("Los Angeles"), V("+1-555-0102")),
      Provider(3, V("Grocery C"), V("Grocery"), Null, V("Chicago"), V("+1-555-0103")),
      Provider(4, V("Bakery D"), V("Bakery"), Null, V("Houston"), V("+1-555-0104")),
      Provider(5, V("Hotel E"), V("Hotel"), Null, V("Phoenix"), V("+1-555-0105")) }

\* lines 249-256
SampleReceivers ==
    { Receiver(1, V("Food Bank A"), V("Food Bank"), V("New York"), V("+1-555-0201")),
      Receiver(2, V("Shelter B"), V("Shelter"), V("Los Angeles"), V("+1-555-0202")),
      Receiver(3, V("Community C"), V("Community"), V("Chicago"), V("+1-555-0203")),
      Receiver(4, V("Church D"), V("Church"), V("Houston"), V("+1-555-0204")),
      Receiver(5, V("School E"), V("School"), V("Phoenix"), V("+1-555-0205")) }

\* lines 258-268
SampleListings ==
    { Listing(1, V("Bread"), V(50), V(<<2025, 1, 15>>), V(1), V("Restaurant"), V("Kitchen A"), V("Bread"), V("Breakfast")),
      Listing(2, V("Rice"), V(100), V(<<2025, 2, 1>>), V(2), V("Cafe"), V("Storage B"), V("Grain"), V("Lunch")),
      Listing(3, V("Vegetables"), V(75), V(<<2025, 1, 20>>), V(3), V("Grocery"), V("Warehouse C"), V("Vegetables"), V("Dinner")),
      Listing(4, V("Fruits"), V(60), V(<<2025, 1, 25>>), V(4), V("Bakery"), V("Bakery D"), V("Fruits"), V("Snack")),
      Listing(5, V("Milk"), V(30), V(<<2025, 1, 18>>), V(5), V("Hotel"), V("Kitchen E"), V("Dairy"), V("Breakfast")),
      Listing(6, V("Cheese"), V(25), V(<<2025, 1, 30>>), V(1), V("Restaurant"), V("Kitchen A"), V("Dairy"), V("Lunch")),
      Listing(7, V("Pasta"), V(80), V(<<2025, 2, 5>>), V(2), V("Cafe"), V("Storage B"), V("Grain"), V("Dinner")),
      Listing(8, V("Meat"), V(40), V(<<2025, 1, 22>>), V(3), V("Grocery"), V("Warehouse C"), V("Protein"), V("Dinner")) }

\* lines 270-277
SampleClaims ==
    { Claim(1, V(1), V(1), V("Completed"), V("2025-01-10 10:00:00")),
      Claim(2, V(2), V(2), V("Pending"), V("2025-01-11 14:30:00")),
      Claim(3, V(3), V(3), V("Completed"), V("2025-01-12 09:15:00")),
      Claim(4, V(4), V(4), V("Cancelled"), V("2025-01-13 16:45:00")),
      Claim(5, V(5), V(5), V("Pending"), V("2025-01-14 11:20:00")) }

SampleData ==
    [providers |-> SampleProviders, receivers |-> SampleReceivers,
     food_listings |-> SampleListings, claims |-> SampleClaims]

\* one multi-row INSERT statement: all its rows, or the failure sqlite3 raises
\* with none of them
InsertMany(table, rows, stored) ==
    IF /\ \A r \in rows : ConstraintsOk(table, r, stored)
       /\ \A r1, r2 \in rows : r1[PK[table]] = r2[PK[table]] => r1 = r2
    THEN [ok |-> TRUE, rows |-> stored \cup rows]
    ELSE [ok |-> FALSE, rows |-> stored]

\* lines 240-277: the four sample INSERTs in one transaction, committed at line
\* 279; a failing INSERT raises out of init_database and nothing is committed
RECURSIVE InsertSample(_, _)
InsertSampleNext(i, pending, ins) ==
    IF ins.ok THEN InsertSample(i + 1, [pending EXCEPT ![import_order[i]] = ins.rows])
    ELSE [ok |-> FALSE, pending |-> pending]

InsertSample(i, pending) ==
    IF i > Len(import_order) THEN [ok |-> TRUE, pending |-> pending]
    ELSE InsertSampleNext(i, pending,
             InsertMany(import_order[i], SampleData[import_order[i]],
                        pending[import_order[i]]))

\* CREATE TABLE IF NOT EXISTS (lines 181-237): a table that exists keeps its rows
CreateIfNotExists(s) ==
    [s EXCEPT !.dbExists = TRUE,
              !.schema = AllTables,
              !.tables = [t \in CoreTables |-> IF t \in s.schema THEN s.tables[t] ELSE {}],
              !.audit = IF "audit_log" \in s.schema THEN s.audit ELSE <<>>]

\* lines 279-281: the commit, or the exception of a failed INSERT
SampleResult(created, ins) ==
    IF ins.ok
    THEN [outcome |-> "sample", store |-> [created EXCEPT !.tables = ins.pending]]
    ELSE [outcome |-> "sample_failed", store |-> [created EXCEPT !.leaked = TRUE]]

\* lines 240-281; the first INSERT raises when another connection holds the
\* write lock
SampleInto(created) ==
    IF created.locked
    THEN [outcome |-> "sample_failed", store |-> [created EXCEPT !.leaked = TRUE]]
    ELSE SampleResult(created, InsertSample(1, created.tables))

\* lines 175-281: the fallback to the sample data
SampleFallback(s) == SampleInto(CreateIfNotExists(s))

FellBack(attempted, fb, events) ==
    [outcome |-> fb.outcome, attempted |-> attempted, store |-> fb.store, events |-> events]

\* lines 170-173: return after a successful import, else fall through;
\* collected: the connection import_csv_data left open is finalised by then
AfterImport(imp, collected) ==
    IF imp.ret = "True"
    THEN [outcome |-> "imported", attempted |-> TRUE, store |-> imp.store,
          events |-> imp.events]
    ELSE FellBack(TRUE,
                  SampleFallback(IF collected THEN Finalised(imp.store) ELSE imp.store),
                  imp.events)

\* a faulty variant of init_database: the test of line 163 left out
init_database_Always(dir, s, collected) ==
    IF dir.exists /\ HasCsvFiles(dir)
    THEN AfterImport(import_csv_data(dir, s), collected)
    ELSE FellBack(FALSE, SampleFallback(s), <<>>)

\* init_database (lines 161-281) on the input directory dir and the store s
init_database(dir, s, collected) ==
    IF s.dbExists
    THEN [outcome |-> "existing", attempted |-> FALSE, store |-> s, events |-> <<>>]
    ELSE IF dir.exists /\ HasCsvFiles(dir)
    THEN AfterImport(import_csv_data(dir, s), collected)
    ELSE FellBack(FALSE, SampleFallback(s), <<>>)

\* ------------------------------------------------------ input directories
NoFile == [present |-> FALSE, readable |-> FALSE, rows |-> <<>>]
\* a file pd.read_csv cannot parse (line 110 raises)
Unreadable == [present |-> TRUE, readable |-> FALSE, rows |-> <<>>]
CsvFile(rows) == [present |-> TRUE, readable |-> TRUE, rows |-> rows]

\* the rows a CSV file is made of, per table
CsvRows ==
    [providers |->
        { Provider(id, V("A"), V("Cafe"), V("1 Main St"), V("Pune"), contact) :
            id \in {1, 2, 3}, contact \in {V("X"), V(" X"), V("Y")} }
        \cup { Provider(3, V("C"), V("Cafe"), V("1 Main St"), V("Pune"), Null),
               Provider(2, Null, V("Cafe"), V("1 Main St"), V("Pune"), V("Y ")) },
     receivers |->
        { Receiver(id, V("R"), V("Shelter"), V("Pune"), contact) :
            id \in {1, 2, 3}, contact \in {V("X"), V(" X"), V("Y")} }
        \cup { Receiver(3, Null, V("Shelter"), V("Pune"), Null) },
     food_listings |->
        { Listing(id, V("Bread"), qty, expiry, V(1), V("Cafe"), V("Kitchen"), V("Bread"), V("Lunch")) :
            id \in {1, 2}, qty \in {V("50"), V("0"), V("-5"), V("abc"), Null},
            expiry \in {V("2025-01-15"), V("2025-02-30"), V("not-a-date"), Null} },
     claims |->
        { Claim(id, V(1), V(1), status, V("2025-01-10 10:00:00")) :
            id \in {1, 2}, status \in {V("Pending"), V("Cancelled"), V("Expired"), Null} }]

\* the longest file of a table
MaxLen(t) == IF t \in {"providers", "receivers"} THEN MaxRows ELSE MaxBatch

GoodFile ==
    [providers |-> CsvFile(<<Provider(1, V("A"), V("Cafe"), V("1 Main St"), V("Pune"), V("X")),
                             Provider(2, V("B"), V("Cafe"), V("2 Main St"), V("Pune"), V("Y"))>>),
     receivers |-> CsvFile(<<Receiver(1, V("R"), V("Shelter"), V("Pune"), V("Z"))>>),
     food_listings |-> CsvFile(<<Listing(1, V("Bread"), V("50"), V("2025-01-15"), V(1), V("Cafe"),
                                         V("Kitchen"), V("Bread"), V("Lunch")),
                                 Listing(2, V("Rice"), V("-5"), V("2025-02-01"), V(2), V("Cafe"),
                                         V("Kitchen"), V("Grain"), V("Lunch"))>>),
     claims |-> CsvFile(<<Claim(1, V(1), V(1), V("Pending"), V("2025-01-10 10:00:00"))>>)]

\* a file whose batch is empty after cleaning
EmptiedFile ==
    [providers |-> CsvFile(<<>>),
     receivers |-> CsvFile(<<>>),
     food_listings |-> CsvFile(<<Listing(1, V("Bread"), V("50"), V("not-a-date"), V(1), V("Cafe"),
                                         V("Kitchen"), V("Bread"), V("Lunch"))>>),
     claims |-> CsvFile(<<>>)]

\* a file whose second row repeats the primary key of its first (with another
\* contact, so that de-duplication keeps both)
ClashingFile ==
    [t \in CoreTables |->
        LET r == GoodFile[t].rows[1]
        IN CsvFile(<<r, IF HasColumn(r, "contact") THEN [r EXCEPT !["contact"] = V("W")]
                        ELSE r>>)]

Dir(other, files) == [exists |-> TRUE, other_csv |-> other, files |-> files]
NoDir == [exists |-> FALSE, other_csv |-> FALSE, files |-> [t \in CoreTables |-> NoFile]]

FileKinds == {"missing", "good", "emptied", "clashing", "unreadable"}

FileOfKind(t, kind) ==
    CASE kind = "missing" -> NoFile
      [] kind = "good" -> GoodFile[t]
      [] kind = "emptied" -> EmptiedFile[t]
      [] kind = "clashing" -> ClashingFile[t]
      [] OTHER -> Unreadable

\* dir is a directory holding one file, of a table among focus: any CSV file
\* of at most MaxLen rows
IsFocusDir(dir, focus) ==
    \E f \in focus : \E k \in 0..MaxLen(f) : \E rows \in [1..k -> CsvRows[f]] :
        dir = Dir(FALSE, [t \in CoreTables |-> IF t = f THEN CsvFile(rows) ELSE NoFile])

\* dir is a directory holding any subset of the four files, each of any kind
IsSubsetDir(dir) ==
    \E other \in BOOLEAN, k \in [CoreTables -> FileKinds] :
        dir = Dir(other, [t \in CoreTables |-> FileOfKind(t, k[t])])

\* the directories the dashboard is run against
AppDirs ==
    { NoDir,
      Dir(FALSE, [t \in CoreTables |-> NoFile]),
      Dir(TRUE, [t \in CoreTables |-> NoFile]),
      Dir(FALSE, GoodFile),
      Dir(FALSE, [GoodFile EXCEPT !["receivers"] = NoFile, !["claims"] = NoFile]),
      Dir(FALSE, [GoodFile EXCEPT !["claims"] = ClashingFile["claims"]]),
      Dir(FALSE, [GoodFile EXCEPT !["providers"] = ClashingFile["providers"]]),
      Dir(FALSE, [GoodFile EXCEPT !["providers"] = Unreadable]) }

\* ------------------------------------------------------------------ state
VARIABLES
    dataDir,   \* ROOT / 'data': whether it exists and the CSV files in it
    store,     \* ROOT / 'food_rescue.db': the file, its tables and their rows
    started,   \* the process has run main() at least once
    last,      \* the handler that ran last: its name, result and events
    emp        \* src/assignment1.py: the roster emp.dict and the menu loop

vars == <<dataDir, store, started, last, emp>>

\* emp = Employee() (lines 2-3, 37) at the top of the menu loop: the empty
\* mapping.  running: the loop of line 39 has not been left; op, id, record
\* and out: the menu operation done last, the id and the record it was given
\* and what it printed
NewEmployee ==
    [dict |-> <<>>, running |-> TRUE, op |-> "none", id |-> Null, record |-> Null,
     out |-> ""]

NoStore ==
    [dbExists |-> FALSE, schema |-> {}, tables |-> EmptyTables, audit |-> <<>>,
     locked |-> FALSE, leaked |-> FALSE]

\* the handler that ran last.  load: what its call of import_csv_data did
\* ("none" when it made none); ok: it ran to its end without raising; fresh:
\* no store file existed when it began; prev_load: the load field of the
\* handler that ran before it; changed: the rows of the core tables are not
\* what they were when it began
Handled(op, load, ok, events) ==
    [op |-> op, load |-> load, ok |-> ok, events |-> events,
     fresh |-> ~store.dbExists, prev_load |-> last.load,
     changed |-> store'.tables # store.tables]

InitStore ==
    /\ store = NoStore
    /\ started = FALSE
    /\ last = [op |-> "none", load |-> "none", ok |-> TRUE, events |-> <<>>,
               fresh |-> TRUE, prev_load |-> "none", changed |-> FALSE]
    /\ emp = NewEmployee

Init == dataDir \in AppDirs /\ InitStore
InitContacts == IsFocusDir(dataDir, {"providers", "receivers"}) /\ InitStore
InitListings == IsFocusDir(dataDir, {"food_listings"}) /\ InitStore
InitLoad ==
    /\ dataDir = NoDir \/ IsSubsetDir(dataDir) \/ IsFocusDir(dataDir, {"claims"})
    /\ InitStore

Booted(r) ==
    /\ store' = r.store
    /\ last' = Handled("init_database",
                       IF ~r.attempted THEN "none"
                       ELSE IF r.outcome = "imported" THEN "True" ELSE "False",
                       r.outcome # "sample_failed", r.events)

\* main() on a fresh process (lines 755-757): init_database
Bootstrap ==
    /\ ~started
    /\ \E collected \in BOOLEAN : Booted(init_database(dataDir, store, collected))
    /\ started' = TRUE
    /\ UNCHANGED <<dataDir, emp>>

Reimported(r) ==
    /\ store' = r.store
    /\ last' = Handled("page_admin", r.ret, r.ret # "raised", r.events)

\* the Re-import button of page_admin (lines 723-726); a load that returns
\* False is not handled any further
Reimport ==
    /\ started
    /\ Reimported(import_csv_data(dataDir, store))
    /\ UNCHANGED <<dataDir, started, emp>>

\* a garbage collection finalises the connection import_csv_data left open
CollectGarbage ==
    /\ store.leaked
    /\ store' = Finalised(store)
    /\ UNCHANGED <<dataDir, started, last, emp>>

\* the process ends, and with it every connection; the store file stays
Restart ==
    /\ started
    /\ started' = FALSE
    /\ store' = Finalised(store)
    /\ last' = Handled("none", "none", TRUE, <<>>)
    /\ UNCHANGED <<dataDir, emp>>

NextLoad == Bootstrap \/ Reimport \/ CollectGarbage \/ Restart

SpecLoad == InitLoad /\ [][NextLoad]_vars
SpecContacts == InitContacts /\ [][NextLoad]_vars
SpecListings == InitListings /\ [][NextLoad]_vars

\* ------------------------------------------------------------- the forms
\* a statement of execute_query can write the table: the table exists and no
\* other connection holds the write lock
Writable(s, table) == table \in s.schema /\ ~s.locked

\* execute_query (lines 295-307) with an INSERT: the store afterwards, or the
\* exception sqlite3 raises (a missing table, a violated constraint)
ExecInsert(s, table, row) ==
    IF Writable(s, table) /\ ConstraintsOk(table, row, s.tables[table])
    THEN [ok |-> TRUE, store |-> [s EXCEPT !.tables[table] = @ \cup {row}]]
    ELSE [ok |-> FALSE, store |-> s]

\* execute_query with UPDATE ... WHERE <primary key> = id; set[row] is the row
\* with the SET clause applied; a statement that matches no row succeeds
ExecUpdate(s, table, id, set) ==
    IF Writable(s, table)
    THEN [ok |-> TRUE,
          store |-> [s EXCEPT !.tables[table] =
                        { IF r[PK[table]] = id THEN set[r] ELSE r : r \in @ }]]
    ELSE [ok |-> FALSE, store |-> s]

\* execute_query with DELETE ... WHERE <primary key> = id
ExecDelete(s, table, id) ==
    IF Writable(s, table)
    THEN [ok |-> TRUE,
          store |-> [s EXCEPT !.tables[table] = { r \in @ : r[PK[table]] # id }]]
    ELSE [ok |-> FALSE, store |-> s]

\* f'<key>={id}' and f'claim_id={id}, status={status}'
Details(key, id, status) == [key |-> key, id |-> id, status |-> status]

\* log_audit (lines 309-315): one INSERT into audit_log
log_audit(s, operation, details) ==
    IF Writable(s, "audit_log")
    THEN [ok |-> TRUE,
          store |-> [s EXCEPT !.audit = Append(@, [operation |-> operation,
                                                   user |-> "streamlit",
                                                   details |-> details])]]
    ELSE [ok |-> FALSE, store |-> s]

\* a faulty variant of Logged: log_audit is called whether or not the
\* statement raised
Logged_Always(op, res, logged) ==
    /\ store' = logged.store
    /\ last' = Handled(op, "none", res.ok /\ logged.ok, <<>>)
    /\ UNCHANGED <<dataDir, started, emp>>

\* execute_query(...) followed by log_audit(...): an exception raised by the
\* statement leaves the handler before log_audit is called
Logged(op, res, logged) ==
    /\ store' = IF res.ok THEN logged.store ELSE res.store
    /\ last' = Handled(op, "none", res.ok /\ logged.ok, <<>>)
    /\ UNCHANGED <<dataDir, started, emp>>

Mutate(op, res, details) == Logged(op, res, log_audit(res.store, op, details))

\* the ids typed into the forms' number inputs
FormIds == {1, 9}
\* the quantities typed into the listing forms (min_value=0)
FormQuantities == {0, 7}
\* str(expiry_date) of the date picked in the listing forms
FormExpiry == V(<<2025, 1, 15>>)
\* datetime.now() formatted at line 478
FormTimestamp == V("2025-01-16 12:00:00")

\* the rows of a select box that the forms pick among
Pick(ids) == IF ids \cap FormIds # {} THEN ids \cap FormIds ELSE ids

IdsOf(s, table) == { r[PK[table]] : r \in s.tables[table] }
Min(S) == CHOOSE x \in S : \A y \in S : x <= y

\* a page is rendered: the process runs and the tables it queries exist
Rendered(tables) ==
    /\ started
    /\ tables \subseteq store.schema
    /\ Len(store.audit) < MaxAudit

\* page_providers_receivers, mode 'Add' (lines 531-537)
AddProvider ==
    /\ Rendered({"providers", "receivers"})
    /\ \E id \in FormIds :
         Mutate("create_provider",
                ExecInsert(store, "providers",
                           Provider(id, V("New"), V(""), V(""), V(""), V("C"))),
                Details("provider_id", id, ""))

\* page_providers_receivers, mode 'Edit' (lines 538-544)
EditProvider ==
    /\ Rendered({"providers", "receivers"})
    /\ \E id \in FormIds :
         Mutate("update_provider",
                ExecUpdate(store, "providers", id,
                           [r \in store.tables["providers"] |->
                               Provider(r["provider_id"], V("New"), V(""), V(""), V(""), V("C"))]),
                Details("provider_id", id, ""))

\* page_providers_receivers, mode 'Delete' (lines 545-548)
DeleteProvider ==
    /\ Rendered({"providers", "receivers"})
    /\ \E id \in FormIds :
         Mutate("delete_provider", ExecDelete(store, "providers", id),
                Details("provider_id", id, ""))

\* page_providers_receivers, receiver form, mode 'Add' (lines 563-569)
AddReceiver ==
    /\ Rendered({"providers", "receivers"})
    /\ \E id \in FormIds :
         Mutate("create_receiver",
                ExecInsert(store, "receivers", Receiver(id, V("New"), V(""), V(""), V("C"))),
                Details("receiver_id", id, ""))

\* receiver form, mode 'Edit' (lines 570-576)
EditReceiver ==
    /\ Rendered({"providers", "receivers"})
    /\ \E id \in FormIds :
         Mutate("update_receiver",
                ExecUpdate(store, "receivers", id,
                           [r \in store.tables["receivers"] |->
                               Receiver(r["receiver_id"], V("New"), V(""), V(""), V("C"))]),
                Details("receiver_id", id, ""))

\* receiver form, mode 'Delete' (lines 577-580)
DeleteReceiver ==
    /\ Rendered({"providers", "receivers"})
    /\ \E id \in FormIds :
         Mutate("delete_receiver", ExecDelete(store, "receivers", id),
                Details("receiver_id", id, ""))

\* line 410: the id of the first provider carrying the chosen name, None when
\* there is no provider
ProviderChoices(s) ==
    IF s.tables["providers"] = {} THEN {Null}
    ELSE { V(Min({ q["provider_id"] : q \in { q \in s.tables["providers"] :
                                                 q["name"] = p["name"] } })) :
             p \in { p \in s.tables["providers"] :
                       p["provider_id"] \in Pick(IdsOf(s, "providers")) } }

\* page_manage_listings, 'Add Listing' (lines 403-423)
AddListing ==
    /\ Rendered({"providers", "food_listings"})
    /\ \E id \in FormIds, qty \in FormQuantities, provider \in ProviderChoices(store) :
         Mutate("create_listing",
                ExecInsert(store, "food_listings",
                           Listing(id, V("New"), V(qty), FormExpiry, provider,
                                   V(""), V(""), V(""), V(""))),
                Details("food_id", id, ""))

\* text_input(label, row[col] or ''): a NULL cell shows as the empty text
OrEmpty(cell) == IF cell = Null THEN V("") ELSE cell

\* page_manage_listings, 'Edit Listing' (lines 425-446); the form is built from
\* the picked row, and int(row['provider_id']) raises on a NULL
EditListing ==
    /\ Rendered({"providers", "food_listings"})
    /\ \E id \in Pick(IdsOf(store, "food_listings")), qty \in FormQuantities :
         /\ \A r \in store.tables["food_listings"] :
                r["food_id"] = id => r["provider_id"] # Null
         /\ Mutate("update_listing",
                   ExecUpdate(store, "food_listings", id,
                              [r \in store.tables["food_listings"] |->
                                  [r EXCEPT !["quantity"] = V(qty),
                                            !["provider_type"] = OrEmpty(@),
                                            !["location"] = OrEmpty(@),
                                            !["food_type"] = OrEmpty(@),
                                            !["meal_type"] = OrEmpty(@)]]),
                   Details("food_id", id, ""))

\* page_manage_listings, 'Delete Listing' (lines 450-457); the expander comes
\* after the edit form, which must have been built for some row
DeleteListing ==
    /\ Rendered({"providers", "food_listings"})
    /\ \E r \in store.tables["food_listings"] : r["provider_id"] # Null
    /\ \E id \in Pick(IdsOf(store, "food_listings")) :
         Mutate("delete_listing", ExecDelete(store, "food_listings", id),
                Details("food_id", id, ""))

\* the id parsed back from a select box entry '<id> - <name>', None when the
\* select box is empty
IdChoices(s, table) ==
    IF s.tables[table] = {} THEN {Null} ELSE { V(i) : i \in Pick(IdsOf(s, table)) }

\* page_manage_claims, 'Add Claim' (lines 468-485)
AddClaim ==
    /\ Rendered({"food_listings", "receivers", "claims"})
    /\ \E id \in FormIds, food \in IdChoices(store, "food_listings"),
          receiver \in IdChoices(store, "receivers"), status \in StatusValues :
         Mutate("create_claim",
                ExecInsert(store, "claims",
                           Claim(id, food, receiver, V(status), FormTimestamp)),
                Details("claim_id", id, ""))

\* page_manage_claims, 'Update Claim Status' (lines 487-496)
UpdateClaim ==
    /\ Rendered({"food_listings", "receivers", "claims"})
    /\ \E id \in Pick(IdsOf(store, "claims")), new_status \in StatusValues :
         Mutate("update_claim",
                ExecUpdate(store, "claims", id,
                           [r \in store.tables["claims"] |->
                               [r EXCEPT !["status"] = V(new_status)]]),
                Details("claim_id", id, new_status))

Next ==
    \/ Bootstrap
    \/ Reimport
    \/ CollectGarbage
    \/ Restart
    \/ AddProvider
    \/ EditProvider
    \/ DeleteProvider
    \/ AddReceiver
    \/ EditReceiver
    \/ DeleteReceiver
    \/ AddListing
    \/ EditListing
    \/ DeleteListing
    \/ AddClaim
    \/ UpdateClaim

Spec == Init /\ [][Next]_vars

\* ------------------------------------------------------ employee roster
\* int(text) of lines 24, 47, 50 and 52: the number, or Null for the
\* ValueError it raises; surrounding whitespace is ignored
ParseInt(text) ==
    CASE text \in {"1", " 1"} -> V(1)
      [] text = "2" -> V(2)
      [] text = "3" -> V(3)
      [] text = "4" -> V(4)
      [] text = "5" -> V(5)
      [] text = "30" -> V(30)
      [] OTHER -> Null

\* float(text) of line 54
ParseFloat(text) ==
    CASE text \in {"100", "1e2"} -> V(100)
      [] OTHER -> Null

\* what is typed at the prompts
ChoiceTexts == {"1", "2", "3", "4", "5", "x"}
IdTexts == {"1", " 1", "2", "3", "x"}
NameTexts == {"Asha", "Ben"}
AgeTexts == {"30", "x"}
DepartmentTexts == {"HR"}
SalaryTexts == {"100", "1e2", "x"}

\* the value of self.dict[id] at line 7
EmployeeRecord(name, age, department, salary) ==
    [Name |-> name, Age |-> age, Department |-> department, Salary |-> salary]

\* a faulty variant of add_employee: the test of line 6 left out
add_employee_Overwrite(dict, id, name, age, department, salary) ==
    [dict |-> (id :> EmployeeRecord(name, age, department, salary)) @@ dict,
     out |-> "added"]

\* Employee.add_employee (lines 5-10): the mapping afterwards and the message
add_employee(dict, id, name, age, department, salary) ==
    IF id \notin DOMAIN dict
    THEN [dict |-> dict @@ (id :> EmployeeRecord(name, age, department, salary)),
          out |-> "added"]
    ELSE [dict |-> dict, out |-> "exists"]

\* Employee.view_employee (lines 12-21): the ids of the lines printed
view_employee(dict) ==
    IF DOMAIN dict = {} THEN [out |-> "none available", ids |-> {}]
    ELSE [out |-> "listed", ids |-> DOMAIN dict]

\* Employee.search_employee (lines 23-35) on the parsed id
search_employee(dict, emp_id) ==
    IF emp_id \in DOMAIN dict THEN "found" ELSE "not found"

\* an uncaught ValueError ends the program
Crashed == [emp EXCEPT !.running = FALSE, !.op = "crash", !.id = Null, !.record = Null,
                       !.out = "ValueError"]

\* the prompt of line 47 is reached
Prompted ==
    /\ emp.running
    /\ UNCHANGED <<dataDir, store, started, last>>

Added(id, record, res) ==
    emp' = [emp EXCEPT !.dict = res.dict, !.op = "add", !.id = V(id),
                       !.record = V(record), !.out = res.out]

\* choice 1 (lines 49-55): the five prompts, then add_employee
ChooseAdd ==
    /\ Prompted
    /\ \E c \in ChoiceTexts, i \in IdTexts, name \in NameTexts, a \in AgeTexts,
          department \in DepartmentTexts, sal \in SalaryTexts :
          /\ ParseInt(c) = V(1)
          /\ IF ParseInt(i) = Null \/ ParseInt(a) = Null \/ ParseFloat(sal) = Null
             THEN emp' = Crashed
             ELSE Added(Val(ParseInt(i)),
                        EmployeeRecord(name, Val(ParseInt(a)), department,
                                       Val(ParseFloat(sal))),
                        add_employee(emp.dict, Val(ParseInt(i)), name, Val(ParseInt(a)),
                                     department, Val(ParseFloat(sal))))

\* choice 2 (lines 56-57)
ChooseView ==
    /\ Prompted
    /\ \E c \in ChoiceTexts :
          /\ ParseInt(c) = V(2)
          /\ emp' = [emp EXCEPT !.op = "view", !.id = Null, !.record = Null,
                                 !.out = view_employee(emp.dict).out]

\* choice 3 (lines 58-59)
ChooseSearch ==
    /\ Prompted
    /\ \E c \in ChoiceTexts, i \in IdTexts :
          /\ ParseInt(c) = V(3)
          /\ IF ParseInt(i) = Null
             THEN emp' = Crashed
             ELSE emp' = [emp EXCEPT !.op = "search", !.id = ParseInt(i), !.record = Null,
                                     !.out = search_employee(emp.dict, Val(ParseInt(i)))]

\* choice 4 (lines 60-63): break
ChooseExit ==
    /\ Prompted
    /\ \E c \in ChoiceTexts :
          /\ ParseInt(c) = V(4)
          /\ emp' = [emp EXCEPT !.running = FALSE, !.op = "exit", !.id = Null,
                                 !.record = Null, !.out = "Exiting..."]

\* any other number (lines 64-65)
ChooseInvalid ==
    /\ Prompted
    /\ \E c \in ChoiceTexts :
          /\ ParseInt(c) # Null
          /\ Val(ParseInt(c)) \notin 1..4
          /\ emp' = [emp EXCEPT !.op = "invalid", !.id = Null, !.record = Null,
                                 !.out = "Invalid choice! Please try again."]

\* a choice that is no number: int() raises at line 47
ChooseNoNumber ==
    /\ Prompted
    /\ \E c \in ChoiceTexts :
          /\ ParseInt(c) = Null
          /\ emp' = Crashed

NextRoster ==
    \/ ChooseAdd
    \/ ChooseView
    \/ ChooseSearch
    \/ ChooseExit
    \/ ChooseInvalid
    \/ ChooseNoNumber

InitRoster == dataDir = NoDir /\ InitStore

SpecRoster == InitRoster /\ [][NextRoster]_vars

\* ----------------------------------------------------------------- claims
LoadSucceeded == last.load = "True"
LoadFailed == last.load = "False"
InputRows(t) == dataDir.files[t].rows
RowsOf(t) == { InputRows(t)[i] : i \in 1..Len(InputRows(t)) }

\* the contact of an input row as the loader compares it: coerced to text and
\* trimmed
TrimmedContact(row) == StrStrip(AsTypeStr(row["contact"]))
\* the first row of the file of table t whose contact cell is c
FirstWithContact(t, c) ==
    InputRows(t)[CHOOSE i \in 1..Len(InputRows(t)) :
        /\ InputRows(t)[i]["contact"] = c
        /\ \A j \in 1..(i - 1) : InputRows(t)[j]["contact"] # c]

\* the first row of the file of table t whose trimmed contact is c
FirstWithTrimmed(t, c) ==
    InputRows(t)[CHOOSE i \in 1..Len(InputRows(t)) :
        /\ TrimmedContact(InputRows(t)[i]) = c
        /\ \A j \in 1..(i - 1) : TrimmedContact(InputRows(t)[j]) # c]

\* C1 as stated: after a successful load a providers or receivers table has as
\* many rows as the input file has distinct contact values, and for each
\* contact value the first row of the file carrying it is the one stored.
C1_AsStated ==
    LoadSucceeded =>
        \A t \in {"providers", "receivers"} :
            dataDir.files[t].present =>
                LET values == { r["contact"] : r \in RowsOf(t) }
                IN /\ Cardinality(store.tables[t]) = Cardinality(values)
                   /\ \A c \in values :
                        CleanContact(FirstWithContact(t, c)) \in store.tables[t]

\* C1 amended: after a successful load a providers or receivers table has as
\* many rows as the input file has distinct contact values once each is
\* coerced to text and trimmed, and for each such value the stored row is the
\* first row of the file carrying it, stored with the trimmed contact.
C1_FirstSeenContactWins ==
    LoadSucceeded =>
        \A t \in {"providers", "receivers"} :
            dataDir.files[t].present =>
                LET values == { TrimmedContact(r) : r \in RowsOf(t) }
                IN /\ Cardinality(store.tables[t]) = Cardinality(values)
                   /\ \A c \in values :
                        LET first == FirstWithTrimmed(t, c)
                        IN [first EXCEPT !["contact"] = V(c)] \in store.tables[t]

\* the spec's scenario: three provider rows, the second repeating the first's
\* contact, loaded as the first and the third
C1_Witness ==
    /\ LoadSucceeded
    /\ dataDir.files["providers"].present
    /\ Len(InputRows("providers")) = 3
    /\ InputRows("providers")[1]["contact"] = V("X")
    /\ InputRows("providers")[2]["contact"] = V("X")
    /\ InputRows("providers")[3]["contact"] = V("Y")
    /\ { r["provider_id"] : r \in store.tables["providers"] } = {1, 3}
    /\ InputRows("providers")[2]["provider_id"] = 2

\* the cell is the text of a calendar date
IsCalendarDate(cell) ==
    cell # Null /\ DateFields(Val(cell)) # <<>> /\ ValidDate(DateFields(Val(cell)))

\* an input listing as it is stored with the quantity q: every other field as
\* in the file, the expiry date in ISO form
StoredListing(row, q) ==
    [row EXCEPT !["expiry_date"] = V(DateFields(Val(row["expiry_date"]))),
                !["quantity"] = q]

\* C2: after a successful load every stored listing has a parsed expiry date
\* (a calendar date), the stored listings are exactly the input rows whose
\* expiry is a calendar date, and so every row whose expiry cannot be parsed
\* is absent while every row with a parseable date is kept.
C2_UnparseableExpiryDropped ==
    (LoadSucceeded /\ dataDir.files["food_listings"].present) =>
        LET rows == InputRows("food_listings")
            kept == { i \in 1..Len(rows) : IsCalendarDate(rows[i]["expiry_date"]) }
        IN /\ \A r \in store.tables["food_listings"] :
                r["expiry_date"] # Null /\ ValidDate(Val(r["expiry_date"]))
           /\ Cardinality(store.tables["food_listings"]) = Cardinality(kept)
           /\ \A i \in kept :
                \E r \in store.tables["food_listings"] :
                    /\ r["food_id"] = rows[i]["food_id"]
                    /\ r["expiry_date"] = V(DateFields(Val(rows[i]["expiry_date"])))
           /\ \A r \in store.tables["food_listings"] :
                \E i \in kept : r["food_id"] = rows[i]["food_id"]

\* a load that stored one listing and dropped another for its expiry value
C2_Witness ==
    /\ LoadSucceeded
    /\ Len(InputRows("food_listings")) = 2
    /\ InputRows("food_listings")[1]["expiry_date"] = V("2025-02-30")
    /\ InputRows("food_listings")[2]["expiry_date"] = V("2025-01-15")
    /\ Cardinality(store.tables["food_listings"]) = 1

\* C3: after a successful load, every input listing with a parseable expiry
\* date and a negative or unparseable quantity is stored with quantity null
\* and its other fields as in the input, every one with a non-negative
\* quantity is stored with that quantity, and no stored listing has a
\* negative quantity.
C3_NegativeQuantityNulled ==
    (LoadSucceeded /\ dataDir.files["food_listings"].present) =>
        LET rows == InputRows("food_listings")
        IN /\ \A i \in 1..Len(rows) :
                IsCalendarDate(rows[i]["expiry_date"]) =>
                    LET n == ToNumeric(rows[i]["quantity"])
                    IN IF n = Null \/ Val(n) < 0
                       THEN StoredListing(rows[i], Null) \in store.tables["food_listings"]
                       ELSE StoredListing(rows[i], n) \in store.tables["food_listings"]
           /\ \A r \in store.tables["food_listings"] :
                r["quantity"] = Null \/ Val(r["quantity"]) >= 0

\* a load of a listing with quantity -5 and one with quantity 0
C3_Witness ==
    /\ LoadSucceeded
    /\ Len(InputRows("food_listings")) = 2
    /\ InputRows("food_listings")[1]["quantity"] = V("-5")
    /\ InputRows("food_listings")[2]["quantity"] = V("0")
    /\ \E r \in store.tables["food_listings"] : r["quantity"] = Null
    /\ \E r \in store.tables["food_listings"] : r["quantity"] = V(0)

\* C4: a re-import that directly follows a successful load of the same
\* directory succeeds and leaves the providers, receivers, food_listings and
\* claims tables exactly as that load left them, whatever the store held
\* before.
C4_LoadIdempotent ==
    [][(last.load = "True" /\ Reimport) =>
          (last'.load = "True" /\ store'.tables = store.tables)]_vars

\* two loads in succession, both successful, with rows stored
C4_Witness ==
    /\ last.op = "page_admin"
    /\ last.load = "True"
    /\ last.prev_load = "True"
    /\ store.tables["providers"] # {}

\* the file of table t, when the directory holds it, can be read and its
\* cleaned batch is inserted without violating a constraint
FileLoads(t) ==
    dataDir.files[t].present =>
        /\ dataDir.files[t].readable
        /\ InsertRows(t, CleanBatch(t, InputRows(t)), 1, {}).ok

\* every table exists; the table of a missing file is empty and the table of
\* a present file holds its cleaned batch (empty when the batch is)
TablesAsFiles ==
    /\ CoreTables \subseteq store.schema
    /\ \A t \in CoreTables :
          store.tables[t] = IF dataDir.files[t].present
                            THEN SeqToSet(CleanBatch(t, InputRows(t)))
                            ELSE {}

\* the input directory is absent or holds no .csv file
NoCsvInput ==
    ~dataDir.exists \/ (~dataDir.other_csv /\ \A t \in CoreTables : ~dataDir.files[t].present)

\* C5 as stated: import_csv_data on a directory holding any subset of the four
\* files, each of them loadable, returns success with every table existing,
\* empty for a missing file and loaded for a present one.
C5_AsStated ==
    (last.op = "page_admin" /\ dataDir.exists /\ \A t \in CoreTables : FileLoads(t)) =>
        (LoadSucceeded /\ TablesAsFiles)

\* C5 amended: the same, for a directory that holds at least one .csv file.
C5_MissingFileTolerance ==
    (/\ last.load # "none"
     /\ ~NoCsvInput
     /\ \A t \in CoreTables : FileLoads(t)) =>
        (LoadSucceeded /\ TablesAsFiles)

\* a load of a directory with a providers file, no receivers file and a
\* listings file whose only row is dropped by the cleaning
C5_Witness ==
    /\ LoadSucceeded
    /\ dataDir.files["providers"] = GoodFile["providers"]
    /\ ~dataDir.files["receivers"].present
    /\ dataDir.files["food_listings"] = EmptiedFile["food_listings"]
    /\ Cardinality(store.tables["providers"]) = 2
    /\ store.tables["receivers"] = {}
    /\ store.tables["food_listings"] = {}
    /\ {"receivers", "food_listings"} \subseteq store.schema

\* C6: when init_database runs with no store file and the input directory is
\* absent or holds no .csv file, it makes no call of import_csv_data and
\* leaves exactly the sample data in the four tables: 5 providers, 5
\* receivers, 8 listings and 5 claims.
C6_FallbackIsSampleData ==
    (/\ last.op = "init_database"
     /\ last.fresh
     /\ NoCsvInput) =>
        /\ last.load = "none"
        /\ last.events = <<>>
        /\ last.ok
        /\ store.dbExists
        /\ store.tables = SampleData
        /\ Cardinality(store.tables["providers"]) = 5
        /\ Cardinality(store.tables["receivers"]) = 5
        /\ Cardinality(store.tables["food_listings"]) = 8
        /\ Cardinality(store.tables["claims"]) = 5

\* a first start with an empty input directory
C6_Witness ==
    /\ last.op = "init_database"
    /\ last.fresh
    /\ dataDir.exists
    /\ NoCsvInput
    /\ store.tables = SampleData

\* C7 as stated: when init_database calls import_csv_data and it returns
\* False, init_database ends with the sample rows present in all four tables.
C7_AsStated ==
    (last.op = "init_database" /\ LoadFailed) =>
        (last.ok /\ \A t \in CoreTables : SampleData[t] \subseteq store.tables[t])

\* C8 as stated, at the re-import of the admin page: once a load that failed
\* has been handled, the core tables exist and are not all empty.
C8_AsStated ==
    (last.op = "page_admin" /\ LoadFailed) =>
        (CoreTables \subseteq store.schema /\ \E t \in CoreTables : store.tables[t] # {})

\* the audit log before a step is a prefix of the audit log after it
AuditKept ==
    /\ Len(store.audit) <= Len(store'.audit)
    /\ SubSeq(store'.audit, 1, Len(store.audit)) = store.audit

\* C9 as stated: no step of the application updates or deletes an audit entry.
C9_AsStated == [][AuditKept]_vars

CrudOps ==
    {"create_provider", "update_provider", "delete_provider",
     "create_receiver", "update_receiver", "delete_receiver",
     "create_listing", "update_listing", "delete_listing",
     "create_claim", "update_claim"}

\* the table a create, update or delete handler writes
TableOf(op) ==
    CASE op \in {"create_provider", "update_provider", "delete_provider"} -> "providers"
      [] op \in {"create_receiver", "update_receiver", "delete_receiver"} -> "receivers"
      [] op \in {"create_listing", "update_listing", "delete_listing"} -> "food_listings"
      [] OTHER -> "claims"

\* a step of one of the create, update and delete handlers
CrudStep ==
    /\ last'.op \in CrudOps
    /\ last' # last \/ store'.tables # store.tables \/ store'.audit # store.audit

\* the step appended one audit entry, which names the handler and the row
OneEntryAppended ==
    /\ Len(store'.audit) = Len(store.audit) + 1
    /\ AuditKept
    /\ store'.audit[Len(store'.audit)].operation = last'.op
    /\ store'.audit[Len(store'.audit)].details.key = PK[TableOf(last'.op)]

\* the rows of the handler's table before and after the step, for the id the
\* appended audit entry names
RowsNamed(tables, audit, op) ==
    { r \in tables[TableOf(op)] : r[PK[TableOf(op)]] = audit[Len(audit)].details.id }

\* C10: a create, update or delete handler whose statement succeeds appends
\* exactly one audit entry, naming the handler and the id it wrote (a created
\* row is then stored, a deleted one gone); one whose statement fails changes
\* neither the tables nor the audit log; and the handlers that call
\* import_csv_data (init_database, page_admin) append no audit entry.
C10_OneAuditEntryPerMutation ==
    [][/\ CrudStep =>
            IF last'.ok
            THEN /\ OneEntryAppended
                 /\ last'.op \in {"create_provider", "create_receiver",
                                  "create_listing", "create_claim"} =>
                       /\ RowsNamed(store.tables, store'.audit, last'.op) = {}
                       /\ RowsNamed(store'.tables, store'.audit, last'.op) # {}
                 /\ last'.op \in {"delete_provider", "delete_receiver", "delete_listing"} =>
                       RowsNamed(store'.tables, store'.audit, last'.op) = {}
            ELSE store'.audit = store.audit /\ store'.tables = store.tables
       /\ last'.op \in {"init_database", "page_admin"} =>
            (store'.audit = store.audit \/ store'.audit = <<>>)]_vars

\* a handler that created a row and logged it
C10_Witness ==
    /\ last.op \in {"create_provider", "create_receiver", "create_listing", "create_claim"}
    /\ last.ok
    /\ store.audit # <<>>
    /\ store.audit[Len(store.audit)].operation = last.op
    /\ RowsNamed(store.tables, store.audit, last.op) # {}

\* the events of the loader's loop among the events of the last handler, in
\* execution order (the DROP and CREATE statements come before them)
LoopEvents ==
    SelectSeq(last.events,
              LAMBDA e : e.ev \in {"skip", "read", "read_error", "cleaned",
                                   "insert", "insert_error"})

\* the place of a table in the loader's order: 1 providers, 2 receivers,
\* 3 food_listings, 4 claims
OrderOf(t) ==
    CASE t = "providers" -> 1
      [] t = "receivers" -> 2
      [] t = "food_listings" -> 3
      [] OTHER -> 4

\* the events at which the loader turns to a table's file
StartsOf(t) ==
    { k \in 1..Len(LoopEvents) :
        LoopEvents[k].table = t /\ LoopEvents[k].ev \in {"skip", "read", "read_error"} }

\* C11: in a load that got past the directory checks the tables are handled
\* in the order providers, receivers, food_listings, claims, each at most
\* once; a parse or insertion failure is the last thing the load does, the
\* load then returns False, and no table later in the order is read or
\* inserted into; a load that returns True has handled all four tables; a
\* load that returns False ended with such a failure.
C11_FixedOrderAbortOnFailure ==
    (last.load \in {"True", "False"} /\ last.events # <<>>) =>
        /\ \A j, k \in 1..Len(LoopEvents) :
              j < k => OrderOf(LoopEvents[j].table) <= OrderOf(LoopEvents[k].table)
        /\ \A t \in CoreTables : Cardinality(StartsOf(t)) <= 1
        /\ \A k \in 1..Len(LoopEvents) :
              LoopEvents[k].ev \in {"read_error", "insert_error"} =>
                  /\ k = Len(LoopEvents)
                  /\ LoadFailed
                  /\ \A t \in CoreTables :
                        OrderOf(t) > OrderOf(LoopEvents[k].table) => StartsOf(t) = {}
        /\ LoadSucceeded => \A t \in CoreTables : Cardinality(StartsOf(t)) = 1
        /\ LoadFailed =>
              LoopEvents[Len(LoopEvents)].ev \in {"read_error", "insert_error"}

\* a load that inserted the providers, failed at an INSERT of the receivers
\* and never read the listings file that the directory holds
C11_Witness ==
    /\ LoadFailed
    /\ \E k \in 1..Len(LoopEvents) :
          LoopEvents[k].ev = "insert" /\ LoopEvents[k].table = "providers"
    /\ LoopEvents[Len(LoopEvents)] = Ev("insert_error", "receivers", 0)
    /\ dataDir.files["food_listings"].present
    /\ dataDir.files["food_listings"].readable

\* C12 as stated: once a handler has returned, no connection that it opened
\* is left open.
C12_AsStated == ~store.leaked

\* C13: when init_database runs and the store file exists, it makes no call
\* of import_csv_data, inserts no sample row and leaves the store, every
\* table of it, as it was.
C13_BootstrapOnlyWithoutStore ==
    [][(~started /\ started' /\ store.dbExists) =>
          /\ store' = store
          /\ last'.op = "init_database"
          /\ last'.load = "none"
          /\ last'.events = <<>>
          /\ last'.ok]_vars

\* a start of the process on a store that an earlier run left with rows
C13_Witness ==
    /\ last.op = "init_database"
    /\ ~last.fresh
    /\ last.load = "none"
    /\ started
    /\ store.tables["providers"] # {}
    /\ ~NoCsvInput

\* the table at which the last load failed
FailedTable == LoopEvents[Len(LoopEvents)].table

\* C14 as stated, in its first half: after a re-import that aborted, the table
\* of every entity handled before the failing one holds the rows of this run.
C14_AsStated ==
    (last.op = "page_admin" /\ LoadFailed /\ last.events # <<>>) =>
        \A t \in CoreTables :
            OrderOf(t) < OrderOf(FailedTable) =>
                store.tables[t] = IF dataDir.files[t].present
                                  THEN SeqToSet(CleanBatch(t, InputRows(t)))
                                  ELSE {}

\* C14 amended: after a load that aborted mid-sequence every core table has
\* been dropped and recreated and no row inserted in this run is stored: after
\* a re-import all four tables are empty, those handled before the failure
\* and those not reached alike, and so is the audit log; after the bootstrap
\* the tables are empty or hold the sample data.
C14_AbortLeavesTablesEmpty ==
    (LoadFailed /\ last.events # <<>>) =>
        /\ CoreTables \subseteq store.schema
        /\ store.audit = <<>>
        /\ last.op = "page_admin" => store.tables = EmptyTables
        /\ last.op = "init_database" => store.tables \in {EmptyTables, SampleData}

\* a re-import that inserted the providers, failed at a later table and left
\* a store that held rows before with four empty tables
C14_Witness ==
    /\ last.op = "page_admin"
    /\ LoadFailed
    /\ \E k \in 1..Len(LoopEvents) :
          LoopEvents[k].ev = "insert" /\ LoopEvents[k].table = "providers"
    /\ OrderOf(FailedTable) > 1
    /\ last.changed
    /\ store.tables = EmptyTables

\* the places of the DROP and CREATE statements, and of the INSERTs, among the
\* events of the last handler
DdlPlaces == { k \in 1..Len(last.events) : last.events[k].ev \in {"drop", "create"} }
InsertPlaces ==
    { k \in 1..Len(last.events) : last.events[k].ev \in {"insert", "insert_error"} }

\* C15: in a load that got past the directory checks every core table is
\* dropped and created again, and all of that before the first INSERT; after
\* a successful load each core table holds exactly the cleaned rows of this
\* load's file (none when the file is missing), so no earlier row survives.
C15_ReplaceBeforeInsert ==
    (last.load \in {"True", "False"} /\ last.events # <<>>) =>
        /\ \A t \in CoreTables :
              /\ \E k \in DdlPlaces : last.events[k] = Ev("drop", t, 0)
              /\ \E k \in DdlPlaces : last.events[k] = Ev("create", t, 0)
        /\ \A d \in DdlPlaces : \A k \in InsertPlaces : d < k
        /\ LoadSucceeded => TablesAsFiles

\* a successful re-import, with inserts, of a store whose rows were not those
\* of the files
C15_Witness ==
    /\ last.op = "page_admin"
    /\ LoadSucceeded
    /\ last.changed
    /\ ~last.fresh
    /\ InsertPlaces # {}
    /\ \E t \in CoreTables : ~dataDir.files[t].present

\* C16 as stated: every stored claim has a status, and it is one of Pending,
\* Completed and Cancelled.
C16_AsStated ==
    \A r \in store.tables["claims"] :
        r["status"] # Null /\ Val(r["status"]) \in StatusValues

\* no two rows of a core table share an id
UniqueIds(tables) ==
    \A t \in CoreTables :
        Cardinality({ r[PK[t]] : r \in tables[t] }) = Cardinality(tables[t])

\* the ids of the cleaned batch of the file of table t are all different
BatchIdsDiffer(t) ==
    \A j, k \in 1..Len(CleanBatch(t, InputRows(t))) :
        CleanBatch(t, InputRows(t))[j][PK[t]] = CleanBatch(t, InputRows(t))[k][PK[t]]
            => j = k

\* C17: after every step no two rows of a core table share an id; an add
\* handler either succeeds, and then its table has exactly one more row and
\* one more id and the other tables are unchanged, or fails and leaves every
\* table unchanged; and a load returns True only when no file repeats an id
\* among the rows it keeps.
C17_UniqueIds ==
    [][/\ UniqueIds(store'.tables)
       /\ (CrudStep /\ last'.op \in {"create_provider", "create_receiver",
                                     "create_listing", "create_claim"}) =>
             IF last'.ok
             THEN /\ Cardinality(store'.tables[TableOf(last'.op)])
                        = Cardinality(store.tables[TableOf(last'.op)]) + 1
                  /\ Cardinality(IdsOf(store', TableOf(last'.op)))
                        = Cardinality(IdsOf(store, TableOf(last'.op))) + 1
                  /\ store.tables[TableOf(last'.op)] \subseteq store'.tables[TableOf(last'.op)]
                  /\ \A t \in CoreTables \ {TableOf(last'.op)} :
                        store'.tables[t] = store.tables[t]
             ELSE store'.tables = store.tables
       /\ (last'.op \in {"init_database", "page_admin"} /\ last'.load = "True") =>
             \A t \in CoreTables : dataDir.files[t].present => BatchIdsDiffer(t)]_vars

\* an add of a provider, on a store that no connection locks, that failed
\* because the id is taken, and left the tables as they were
C17_Witness ==
    /\ dataDir = Dir(FALSE, GoodFile)
    /\ last.op = "create_provider"
    /\ ~last.ok
    /\ ~last.changed
    /\ FormIds \cap IdsOf(store, "providers") # {}
    /\ UniqueIds(store.tables)

\* C18: in every step of the roster every stored record stays, under its id
\* and unchanged; only an add changes the mapping; an add with an id not yet
\* present stores exactly the record it was given under that id and nothing
\* else; an add with an id already present leaves the mapping unchanged.
C18_FirstAddWins ==
    [][/\ \A id \in DOMAIN emp.dict :
             id \in DOMAIN emp'.dict /\ emp'.dict[id] = emp.dict[id]
       /\ emp'.op # "add" => emp'.dict = emp.dict
       /\ emp'.op = "add" =>
             IF Val(emp'.id) \in DOMAIN emp.dict
             THEN emp'.dict = emp.dict /\ emp'.out = "exists"
             ELSE /\ DOMAIN emp'.dict = DOMAIN emp.dict \cup {Val(emp'.id)}
                  /\ emp'.dict[Val(emp'.id)] = Val(emp'.record)
                  /\ emp'.out = "added"]_vars

\* an add of another record under an id already stored, which kept the first
C18_Witness ==
    /\ emp.op = "add"
    /\ emp.out = "exists"
    /\ Val(emp.id) \in DOMAIN emp.dict
    /\ emp.dict[Val(emp.id)] # Val(emp.record)
    /\ Cardinality(DOMAIN emp.dict) >= 2

====
